---- MODULE Spec2Model ----
(***************************************************************************)
(* Model of the Go package limit-offset/pagination.go: FindParams,         *)
(* Params.Query, Params.SortURL and Paginate (buildLinks, buildData).      *)
(*                                                                         *)
(* Representation.                                                         *)
(*  - A Go string is a sequence of one-character strings, so that          *)
(*    strings.Split, strings.Join, strconv.ParseUint and the %d verb of    *)
(*    fmt.Sprintf are computed character by character.                     *)
(*  - A Go uint is a little-endian sequence of 16-bit limbs, two of them   *)
(*    on a 32-bit build and four on a 64-bit build, so that + and - wrap   *)
(*    at the real 2^32 or 2^64 and ParseUint's bitSize 32 is the real one. *)
(*  - []interface{} is a sequence of opaque items.                          *)
(***************************************************************************)
EXTENDS Integers, Sequences, FiniteSets, TLC

VARIABLES
    wordBits,       \* size of uint on the build: 32 or 64
    pc,             \* the call that was made last ("start" before any)
    rawQuery,       \* req.URL.RawQuery
    defaultOffset,  \* FindParams argument
    defaultLimit,   \* FindParams argument
    params,         \* the Params value: [Limit, Offset, Sort]
    err,            \* error returned by FindParams ("" is nil)
    data,           \* Paginate argument
    baseURL,        \* Paginate argument
    response,       \* Response returned by Paginate
    query,          \* string returned by Params.Query
    sortURL,        \* string returned by Params.SortURL
    dataset,        \* the rows of the table the handler reads, in order
    pages           \* the data of the responses a client has received so far

vars == <<wordBits, pc, rawQuery, defaultOffset, defaultLimit, params, err,
          data, baseURL, response, query, sortURL, dataset, pages>>

-----------------------------------------------------------------------------
(* Unsigned machine integers                                               *)

LimbBase == 2^16

NLimbs(bits) == bits \div 16

RECURSIVE FromNat(_, _)
\* The n-limb value of a small natural v.
FromNat(v, n) ==
    IF n = 0 THEN <<>> ELSE <<v % LimbBase>> \o FromNat(v \div LimbBase, n - 1)

\* 2^bits - 1 in n limbs (bits a multiple of 16, bits <= 16 n).
MaxOfBits(bits, n) ==
    [i \in 1..n |-> IF i <= NLimbs(bits) THEN LimbBase - 1 ELSE 0]

IsZero(a) == \A i \in 1..Len(a) : a[i] = 0

RECURSIVE AddLimbs(_, _, _)
AddLimbs(a, b, carry) ==
    IF a = <<>> THEN <<>>
    ELSE LET s == Head(a) + Head(b) + carry
         IN  <<s % LimbBase>> \o AddLimbs(Tail(a), Tail(b), s \div LimbBase)

\* Go's a + b on unsigned operands of the same size: the carry out is lost.
UintAdd(a, b) == AddLimbs(a, b, 0)

RECURSIVE SubLimbs(_, _, _)
SubLimbs(a, b, borrow) ==
    IF a = <<>> THEN <<>>
    ELSE LET d == Head(a) - Head(b) - borrow
         IN  <<d % LimbBase>> \o SubLimbs(Tail(a), Tail(b), IF d < 0 THEN 1 ELSE 0)

\* Go's a - b on unsigned operands of the same size: the borrow out is lost.
UintSub(a, b) == SubLimbs(a, b, 0)

RECURSIVE UintLess(_, _)
\* a < b, compared from the most significant limb.
UintLess(a, b) ==
    IF a = <<>> THEN FALSE
    ELSE LET n == Len(a)
         IN  IF a[n] # b[n] THEN a[n] < b[n]
             ELSE UintLess(SubSeq(a, 1, n - 1), SubSeq(b, 1, n - 1))

UintGreater(a, b) == UintLess(b, a)

RECURSIVE MulLimbs(_, _, _)
MulLimbs(a, m, carry) ==
    IF a = <<>> THEN <<>>
    ELSE LET p == Head(a) * m + carry
         IN  <<p % LimbBase>> \o MulLimbs(Tail(a), m, p \div LimbBase)

\* a * m for a small m, wrapping like Go's *.
UintMulSmall(a, m) == MulLimbs(a, m, 0)

RECURSIVE DivLimbs(_, _, _)
\* Quotient and remainder of a by a small d, most significant limb first.
DivLimbs(a, d, rem) ==
    IF a = <<>> THEN [q |-> <<>>, r |-> rem]
    ELSE LET n   == Len(a)
             cur == rem * LimbBase + a[n]
             low == DivLimbs(SubSeq(a, 1, n - 1), d, cur % d)
         IN  [q |-> Append(low.q, cur \div d), r |-> low.r]

UintDivSmall(a, d) == DivLimbs(a, d, 0)

\* Conversion between unsigned sizes: truncation or zero extension.
UintConv(a, n) == [i \in 1..n |-> IF i <= Len(a) THEN a[i] ELSE 0]

-----------------------------------------------------------------------------
(* Strings                                                                 *)

Digits == <<"0", "1", "2", "3", "4", "5", "6", "7", "8", "9">>

IsDigit(c) == \E i \in 1..10 : Digits[i] = c

DigitVal(c) == (CHOOSE i \in 1..10 : Digits[i] = c) - 1

RECURSIVE FormatDigits(_)
FormatDigits(a) ==
    IF IsZero(a) THEN <<>>
    ELSE LET qr == UintDivSmall(a, 10)
         IN  Append(FormatDigits(qr.q), Digits[qr.r + 1])

\* The %d verb of fmt.Sprintf on an unsigned value.
FormatUint(a) == IF IsZero(a) THEN <<"0">> ELSE FormatDigits(a)

RECURSIVE Concat(_)
\* The concatenation of a sequence of strings.
Concat(ss) == IF ss = <<>> THEN <<>> ELSE Head(ss) \o Concat(Tail(ss))

RECURSIVE Join(_, _)
\* strings.Join(ss, sep)
Join(ss, sep) ==
    IF ss = <<>> THEN <<>>
    ELSE IF Len(ss) = 1 THEN ss[1]
    ELSE ss[1] \o sep \o Join(Tail(ss), sep)

\* Index of the first c in s, 0 when there is none.
IndexOf(s, c) ==
    IF \E i \in 1..Len(s) : s[i] = c
    THEN CHOOSE i \in 1..Len(s) : s[i] = c /\ \A j \in 1..(i - 1) : s[j] # c
    ELSE 0

RECURSIVE Split(_, _)
\* strings.Split(s, sep) for a one-character sep: n separators give n+1 parts.
Split(s, c) ==
    LET i == IndexOf(s, c)
    IN  IF i = 0 THEN <<s>>
        ELSE <<SubSeq(s, 1, i - 1)>> \o Split(SubSeq(s, i + 1, Len(s)), c)

\* strings.Cut(s, c) for a one-character c.
Cut(s, c) ==
    LET i == IndexOf(s, c)
    IN  IF i = 0 THEN [before |-> s, after |-> <<>>, found |-> FALSE]
        ELSE [before |-> SubSeq(s, 1, i - 1),
              after  |-> SubSeq(s, i + 1, Len(s)),
              found  |-> TRUE]

Contains(s, c) == IndexOf(s, c) # 0

-----------------------------------------------------------------------------
(* strconv.ParseUint(s, 10, bitSize), computed in uint64 as the library    *)
(* does: a result [n, err], err "" for nil.                                *)

ErrSyntax == "invalid syntax"
ErrRange == "value out of range"

MaxUint64 == MaxOfBits(64, 4)

\* maxUint64/10 + 1
ParseCutoff == UintAdd(UintDivSmall(MaxUint64, 10).q, FromNat(1, 4))

RECURSIVE ParseLoop(_, _, _)
ParseLoop(s, n, maxVal) ==
    IF s = <<>> THEN [n |-> n, err |-> ""]
    ELSE IF ~IsDigit(Head(s)) THEN [n |-> FromNat(0, 4), err |-> ErrSyntax]
    ELSE IF ~UintLess(n, ParseCutoff) THEN [n |-> maxVal, err |-> ErrRange]
    ELSE LET n10 == UintMulSmall(n, 10)
             n1  == UintAdd(n10, FromNat(DigitVal(Head(s)), 4))
         IN  IF UintLess(n1, n10) \/ UintGreater(n1, maxVal)
             THEN [n |-> maxVal, err |-> ErrRange]
             ELSE ParseLoop(Tail(s), n1, maxVal)

ParseUint(s, bitSize) ==
    IF s = <<>> THEN [n |-> FromNat(0, 4), err |-> ErrSyntax]
    ELSE ParseLoop(s, FromNat(0, 4), MaxOfBits(bitSize, 4))

-----------------------------------------------------------------------------
(* req.URL.Query().Get(key): net/url's ParseQuery and Values.Get           *)

\* The printable ASCII characters, 0x20 to 0x7E (the grave accent, which a TLA+
\* string cannot hold, is written \x60).
Printable == <<
    " ", "!", "\"", "#", "$", "%", "&", "'", "(", ")", "*", "+",
    ",", "-", ".", "/", "0", "1", "2", "3", "4", "5", "6", "7",
    "8", "9", ":", ";", "<", "=", ">", "?", "@", "A", "B", "C",
    "D", "E", "F", "G", "H", "I", "J", "K", "L", "M", "N", "O",
    "P", "Q", "R", "S", "T", "U", "V", "W", "X", "Y", "Z", "[",
    "\\", "]", "^", "_", "\\x60", "a", "b", "c", "d", "e", "f", "g",
    "h", "i", "j", "k", "l", "m", "n", "o", "p", "q", "r", "s",
    "t", "u", "v", "w", "x", "y", "z", "{", "|", "}", "~" >>

HexDigits == <<"0", "1", "2", "3", "4", "5", "6", "7", "8", "9",
               "A", "B", "C", "D", "E", "F">>

LowerHex == <<"a", "b", "c", "d", "e", "f">>

IsHex(c) == (\E i \in 1..16 : HexDigits[i] = c) \/ (\E i \in 1..6 : LowerHex[i] = c)

UnHex(c) ==
    IF \E i \in 1..16 : HexDigits[i] = c
    THEN (CHOOSE i \in 1..16 : HexDigits[i] = c) - 1
    ELSE (CHOOSE i \in 1..6 : LowerHex[i] = c) + 9

\* The character of a byte; a byte outside printable ASCII is written \xHH.
ByteChar(b) ==
    IF b >= 32 /\ b <= 126 THEN Printable[b - 31]
    ELSE "\\x" \o HexDigits[(b \div 16) + 1] \o HexDigits[(b % 16) + 1]

RECURSIVE EscapesValid(_)
\* url.unescape, first pass: every % is followed by two hex digits.
EscapesValid(s) ==
    IF s = <<>> THEN TRUE
    ELSE IF Head(s) = "%"
         THEN Len(s) >= 3 /\ IsHex(s[2]) /\ IsHex(s[3])
              /\ EscapesValid(SubSeq(s, 4, Len(s)))
         ELSE EscapesValid(Tail(s))

RECURSIVE Decode(_)
\* url.unescape, second pass (query component mode): %HH is a byte, + a space.
Decode(s) ==
    IF s = <<>> THEN <<>>
    ELSE IF Head(s) = "%"
         THEN <<ByteChar(UnHex(s[2]) * 16 + UnHex(s[3]))>> \o Decode(SubSeq(s, 4, Len(s)))
    ELSE IF Head(s) = "+" THEN <<" ">> \o Decode(Tail(s))
    ELSE <<Head(s)>> \o Decode(Tail(s))

\* url.QueryUnescape
QueryUnescape(s) ==
    IF EscapesValid(s) THEN [s |-> Decode(s), ok |-> TRUE]
    ELSE [s |-> <<>>, ok |-> FALSE]

\* One key=value pair of url.ParseQuery, as a sequence of at most one entry:
\* a pair whose key or value has a bad escape is skipped.
QueryEntry(k, v) ==
    IF ~k.ok \/ ~v.ok THEN <<>> ELSE <<[key |-> k.s, value |-> v.s]>>

\* The text between two "&": skipped when it is empty or holds a semicolon,
\* else cut at the first "=" and unescaped.
QueryPair(kv) ==
    IF Contains(kv, ";") \/ kv = <<>> THEN <<>>
    ELSE QueryEntry(QueryUnescape(Cut(kv, "=").before),
                    QueryUnescape(Cut(kv, "=").after))

RECURSIVE ParseQuery(_)
\* url.ParseQuery as URL.Query uses it (the error is discarded): the
\* key/value pairs in order.
ParseQuery(q) ==
    IF q = <<>> THEN <<>>
    ELSE QueryPair(Cut(q, "&").before) \o ParseQuery(Cut(q, "&").after)

\* The first value of the key among the pairs, "" when there is none.
FirstValue(pairs, key) ==
    IF \E i \in 1..Len(pairs) : pairs[i].key = key
    THEN pairs[CHOOSE i \in 1..Len(pairs) :
                  /\ pairs[i].key = key
                  /\ \A j \in 1..(i - 1) : pairs[j].key # key].value
    ELSE <<>>

\* req.URL.Query().Get(key)
QueryGet(q, key) == FirstValue(ParseQuery(q), key)

-----------------------------------------------------------------------------
(* The package                                                             *)

ParamPageLimit == <<"p", "a", "g", "e", "[", "l", "i", "m", "i", "t", "]">>
ParamPageOffset == <<"p", "a", "g", "e", "[", "o", "f", "f", "s", "e", "t", "]">>
ParamSortBy == <<"s", "o", "r", "t">>

\* The zero values of Links and Response.
NoLinks == [First |-> <<>>, Prev |-> <<>>, Next |-> <<>>, Last |-> <<>>]
NoResponse == [Data |-> <<>>, Links |-> NoLinks]

\* func (p Params) SortURL() string
SortURL(p) ==
    IF Len(p.Sort) > 0
    THEN ParamSortBy \o <<"=">>
         \o Join([i \in 1..Len(p.Sort) |->
                    p.Sort[i].Field \o <<".">> \o p.Sort[i].Order], <<",">>)
    ELSE <<>>

\* Query without the extra row: LIMIT limit instead of LIMIT limit+1.
Query_NoExtraRow(p) ==
    <<" ", "L", "I", "M", "I", "T", " ">>
    \o FormatUint(p.Limit)
    \o <<" ", "O", "F", "F", "S", "E", "T", " ">>
    \o FormatUint(p.Offset)
    \o <<" ">>
    \o (IF Len(p.Sort) > 0
        THEN <<"O", "R", "D", "E", "R", " ", "B", "Y", " ">>
             \o Join([i \in 1..Len(p.Sort) |->
                        p.Sort[i].Field \o <<" ">> \o p.Sort[i].Order], <<",">>)
        ELSE <<>>)

\* func (p Params) Query() string
Query(p) ==
    <<" ", "L", "I", "M", "I", "T", " ">>
    \o FormatUint(UintAdd(p.Limit, FromNat(1, Len(p.Limit))))
    \o <<" ", "O", "F", "F", "S", "E", "T", " ">>
    \o FormatUint(p.Offset)
    \o <<" ">>
    \o (IF Len(p.Sort) > 0
        THEN <<"O", "R", "D", "E", "R", " ", "B", "Y", " ">>
             \o Join([i \in 1..Len(p.Sort) |->
                        p.Sort[i].Field \o <<" ">> \o p.Sort[i].Order], <<",">>)
        ELSE <<>>)

RECURSIVE SortFields_KeepsLonger(_)
\* SortFields that tests len(v) >= 2: a token with two periods is kept.
SortFields_KeepsLonger(sortFields) ==
    IF sortFields = <<>> THEN <<>>
    ELSE LET v == Split(Head(sortFields), ".")
         IN  (IF Len(v) >= 2 THEN <<[Field |-> v[1], Order |-> v[2]]>> ELSE <<>>)
             \o SortFields_KeepsLonger(Tail(sortFields))

RECURSIVE SortFields(_)
\* The loop of FindParams over strings.Split(sort, ","): a token that splits
\* on "." into exactly two parts is appended, any other is skipped.
SortFields(sortFields) ==
    IF sortFields = <<>> THEN <<>>
    ELSE LET v == Split(Head(sortFields), ".")
         IN  (IF Len(v) = 2 THEN <<[Field |-> v[1], Order |-> v[2]]>> ELSE <<>>)
             \o SortFields(Tail(sortFields))

\* FindParams, lines 114-129: the sort parameter, and the return without error.
ResolveSort(sort, p) ==
    [params |-> IF sort # <<>>
                THEN [p EXCEPT !.Sort = SortFields(Split(sort, ","))]
                ELSE p,
     err |-> ""]

\* ResolveOffset that stores the converted offset in Limit.
ResolveOffset_IntoLimit(offset, sort, p) ==
    IF offset = <<>> THEN ResolveSort(sort, p)
    ELSE IF ParseUint(offset, 32).err # ""
    THEN [params |-> p, err |-> ParseUint(offset, 32).err]
    ELSE ResolveSort(sort,
            [p EXCEPT !.Limit = UintConv(ParseUint(offset, 32).n, Len(p.Offset))])

\* ResolveOffset that does not look at ParseUint's error.
ResolveOffset_IgnoresError(offset, sort, p) ==
    IF offset = <<>> THEN ResolveSort(sort, p)
    ELSE ResolveSort(sort,
            [p EXCEPT !.Offset = UintConv(ParseUint(offset, 32).n, Len(p.Offset))])

\* FindParams, lines 106-112: the offset parameter; p holds what was resolved
\* before it.
ResolveOffset(offset, sort, p) ==
    IF offset = <<>> THEN ResolveSort(sort, p)
    ELSE IF ParseUint(offset, 32).err # ""
    THEN [params |-> p, err |-> ParseUint(offset, 32).err]
    ELSE ResolveSort(sort,
            [p EXCEPT !.Offset = UintConv(ParseUint(offset, 32).n, Len(p.Offset))])

\* FindParams, lines 98-104: the limit parameter; p holds the defaults.
ResolveLimit(limit, offset, sort, p) ==
    IF limit = <<>> THEN ResolveOffset(offset, sort, p)
    ELSE IF ParseUint(limit, 32).err # ""
    THEN [params |-> p, err |-> ParseUint(limit, 32).err]
    ELSE ResolveOffset(offset, sort,
            [p EXCEPT !.Limit = UintConv(ParseUint(limit, 32).n, Len(p.Limit))])

\* func FindParams(req, defaultOffset, defaultLimit) (Params, error):
\* the result [params, err], err "" for nil. The defaults carry the uint size.
FindParams(q, dOffset, dLimit) ==
    ResolveLimit(QueryGet(q, ParamPageLimit),
                 QueryGet(q, ParamPageOffset),
                 QueryGet(q, ParamSortBy),
                 [Limit |-> dLimit, Offset |-> dOffset, Sort |-> <<>>])

\* The link text shared by first, next and prev: "%s?%s=%d&%s=%d" and then
\* "&" sortURL when sortURL is not empty.
Link(base, p, offsetDigits) ==
    LET s == SortURL(p)
    IN  base \o <<"?">> \o ParamPageLimit \o <<"=">> \o FormatUint(p.Limit)
        \o <<"&">> \o ParamPageOffset \o <<"=">> \o offsetDigits
        \o (IF s # <<>> THEN <<"&">> \o s ELSE <<>>)

\* buildLinks with >= for >: a next link also for a page of exactly limit items.
buildLinks_NextAtLimit(base, p, dataSize) ==
    [First |-> Link(base, p, <<"0">>),
     Next  |-> IF ~UintLess(FromNat(dataSize, Len(p.Limit)), p.Limit)
               THEN Link(base, p, FormatUint(UintAdd(p.Offset, p.Limit)))
               ELSE <<>>,
     Prev  |-> IF UintGreater(p.Offset, FromNat(0, Len(p.Offset)))
               THEN Link(base, p, FormatUint(UintSub(p.Offset, p.Limit)))
               ELSE <<>>,
     Last  |-> <<>>]

\* buildLinks with the prev offset clamped to 0 when offset < limit.
buildLinks_PrevClamped(base, p, dataSize) ==
    [First |-> Link(base, p, <<"0">>),
     Next  |-> IF UintGreater(FromNat(dataSize, Len(p.Limit)), p.Limit)
               THEN Link(base, p, FormatUint(UintAdd(p.Offset, p.Limit)))
               ELSE <<>>,
     Prev  |-> IF UintGreater(p.Offset, FromNat(0, Len(p.Offset)))
               THEN Link(base, p,
                         IF UintLess(p.Offset, p.Limit) THEN <<"0">>
                         ELSE FormatUint(UintSub(p.Offset, p.Limit)))
               ELSE <<>>,
     Last  |-> <<>>]

\* buildLinks whose first link keeps the current offset.
buildLinks_FirstKeepsOffset(base, p, dataSize) ==
    [First |-> Link(base, p, FormatUint(p.Offset)),
     Next  |-> IF UintGreater(FromNat(dataSize, Len(p.Limit)), p.Limit)
               THEN Link(base, p, FormatUint(UintAdd(p.Offset, p.Limit)))
               ELSE <<>>,
     Prev  |-> IF UintGreater(p.Offset, FromNat(0, Len(p.Offset)))
               THEN Link(base, p, FormatUint(UintSub(p.Offset, p.Limit)))
               ELSE <<>>,
     Last  |-> <<>>]

\* func buildLinks(baseURL string, params Params, dataSize int) Links
buildLinks(base, p, dataSize) ==
    [First |-> Link(base, p, <<"0">>),
     Next  |-> IF UintGreater(FromNat(dataSize, Len(p.Limit)), p.Limit)
               THEN Link(base, p, FormatUint(UintAdd(p.Offset, p.Limit)))
               ELSE <<>>,
     Prev  |-> IF UintGreater(p.Offset, FromNat(0, Len(p.Offset)))
               THEN Link(base, p, FormatUint(UintSub(p.Offset, p.Limit)))
               ELSE <<>>,
     Last  |-> <<>>]

\* buildData that drops the first item instead of the last.
buildData_DropsFirst(d, p) ==
    IF UintGreater(FromNat(Len(d), Len(p.Limit)), p.Limit)
    THEN Tail(d)
    ELSE d

\* func buildData(data []interface{}, params Params) []interface{}
buildData(d, p) ==
    IF UintGreater(FromNat(Len(d), Len(p.Limit)), p.Limit)
    THEN SubSeq(d, 1, Len(d) - 1)
    ELSE d

\* func Paginate(data []interface{}, baseURL string, params Params) Response
Paginate(d, base, p) ==
    [Data |-> buildData(d, p), Links |-> buildLinks(base, p, Len(d))]

-----------------------------------------------------------------------------
(* Inputs                                                                  *)

\* Largest of the small limits and offsets that are enumerated.
MaxSmall == 2
\* Longest item sequence handed to Paginate.
MaxItems == 3
\* Longest sort sequence of a Params built by the caller.
MaxSorts == 2

WordSizes == {32, 64}

\* All sequences over S of length at most n.
SeqsUpTo(S, n) == UNION {[1..k -> S] : k \in 0..n}

\* The uint values tried for a build of the given size: the small ones, and
\* the ones around 2^32 (ParseUint's bitSize) and around the top of the type.
UintSamples(bits) ==
    LET n   == NLimbs(bits)
        one == FromNat(1, n)
        top == MaxOfBits(bits, n)
        m32 == MaxOfBits(32, n)
    IN  {FromNat(v, n) : v \in 0..MaxSmall}
        \cup {top, UintSub(top, one), m32, UintAdd(m32, one)}

Asc == <<"a", "s", "c">>
Desc == <<"d", "e", "s", "c">>

\* The sort entries a caller's Params is built from, in this order.
SortEntry(i) ==
    [Field |-> <<<<"i", "d">>, <<"n">>, <<"a", "t">>>>[((i - 1) % 3) + 1],
     Order |-> IF i % 2 = 1 THEN Asc ELSE Desc]

SortSamples == {[i \in 1..k |-> SortEntry(i)] : k \in 0..MaxSorts}

Items == {"x", "y"}

DataSamples == SeqsUpTo(Items, MaxItems)

BaseURLs == {<<"/", "s">>, <<>>}

ParamsSamples(bits) ==
    [Limit : UintSamples(bits), Offset : UintSamples(bits), Sort : SortSamples]

\* Longest limit or offset text enumerated character by character.
MaxNumLen == 2
\* Longest sort text enumerated character by character.
MaxSortLen == 4

NumChars == {"0", "1", "9", "-", "a"}

\* 2^32 - 1, 2^32, 2^64 and 1 written with ten leading zeros.
BigNums ==
    {<<"4", "2", "9", "4", "9", "6", "7", "2", "9", "5">>,
     <<"4", "2", "9", "4", "9", "6", "7", "2", "9", "6">>,
     <<"1", "8", "4", "4", "6", "7", "4", "4", "0", "7", "3", "7", "0", "9", "5",
       "5", "1", "6", "1", "6">>,
     <<"0", "0", "0", "0", "0", "0", "0", "0", "0", "0", "1">>}

NumStrings(n) == SeqsUpTo(NumChars, n) \cup BigNums

\* key=value
Part(key, v) == key \o <<"=">> \o v

\* The texts of one parameter in a request; <<>> is the parameter left out.
Parts(key, n) == {<<>>} \cup {Part(key, v) : v \in NumStrings(n)}

\* The parts that are there, joined with "&".
Amp(parts) == Join(SelectSeq(parts, LAMBDA x : x # <<>>), <<"&">>)

SortPart == Part(ParamSortBy, <<"n", ".", "d", "e", "s", "c">>)

\* Requests that vary the limit and the offset, a fixed sort after them.
NumRequests ==
    {Amp(<<l, o, SortPart>>) :
        l \in Parts(ParamPageLimit, MaxNumLen),
        o \in Parts(ParamPageOffset, MaxNumLen - 1)}
    \cup
    {Amp(<<l, o, SortPart>>) :
        l \in Parts(ParamPageLimit, MaxNumLen - 1),
        o \in Parts(ParamPageOffset, MaxNumLen)}

SortChars == {"a", "b", ".", ","}

\* Requests that vary the sort text.
SortRequests == {Part(ParamSortBy, t) : t \in SeqsUpTo(SortChars, MaxSortLen)}

\* Requests with repeated keys, escapes, a semicolon, a plus sign.
OddRequests ==
    {Amp(<<Part(ParamPageLimit, <<"1">>), Part(ParamPageLimit, <<"a">>)>>),
     Amp(<<Part(ParamPageLimit, <<"a">>), Part(ParamPageLimit, <<"1">>)>>),
     Part(<<"p", "a", "g", "e", "%", "5", "B", "l", "i", "m", "i", "t", "%", "5", "D">>,
          <<"7">>),
     Part(ParamPageLimit, <<"%", "3", "1">>),
     Part(ParamPageLimit, <<"%", "z", "z">>),
     Part(ParamPageLimit, <<"+", "1">>),
     Part(ParamPageLimit, <<"1">>) \o <<";">> \o Part(ParamPageOffset, <<"a">>),
     Amp(<<Part(ParamPageOffset, <<"3">>), Part(ParamPageLimit, <<"5">>)>>),
     Part(ParamSortBy, <<"a", "%", "2", "E", "b">>),
     Part(ParamSortBy, <<"a", ".", "b", "%", "2", "C", "c", ".", "d">>),
     Amp(<<Part(ParamSortBy, <<"a", ".", "b">>), Part(ParamSortBy, <<"c", ".", "d">>)>>),
     Part(ParamSortBy, <<"a", ".", "b", ",", "a", "(", "b", ")", ",", "b", ".", "a">>),
     Part(ParamSortBy, <<"a", ".", "b", ".", "c", ",", "b", ".", "a">>),
     <<>>}

Requests == NumRequests \cup SortRequests \cup OddRequests

\* The (defaultOffset, defaultLimit) pairs a caller passes.
DefaultSamples(bits) ==
    LET n == NLimbs(bits)
    IN  {<<FromNat(2, n), FromNat(4, n)>>, <<FromNat(0, n), MaxOfBits(bits, n)>>}

\* Field and order texts without comma or period, some with characters that
\* mean something in a query string.
RoundTripFields ==
    {<<"i", "d">>, <<>>, <<"a", "&", "b">>, <<"a", "+", "b">>, <<"a", "%", "b">>,
     <<"a", " ", "b">>}

RoundTripSorts == SeqsUpTo([Field : RoundTripFields, Order : {Asc, <<>>}], MaxSorts)

\* The tables a handler reads: 0..MaxRows rows, each row its own item.
MaxRows == 4

Tables == {[i \in 1..n |-> ToString(i)] : n \in 0..MaxRows}

\* Page sizes of a traversal: the small ones, zero, and the two largest uints.
TraverseLimits(bits) ==
    {FromNat(v, NLimbs(bits)) : v \in 0..(MaxSmall + 1)}
    \cup {MaxOfBits(bits, NLimbs(bits)),
          UintSub(MaxOfBits(bits, NLimbs(bits)), FromNat(1, NLimbs(bits)))}

\* The first request of a traversal carries no page parameters.
FirstRequests == {<<>>, SortPart}

-----------------------------------------------------------------------------
(* A caller that builds a Params value and makes one call with it          *)

InitParams ==
    /\ wordBits \in WordSizes
    /\ params \in ParamsSamples(wordBits)
    /\ pc = "start"
    /\ rawQuery = <<>>
    /\ defaultOffset = FromNat(0, NLimbs(wordBits))
    /\ defaultLimit = FromNat(0, NLimbs(wordBits))
    /\ err = ""
    /\ data = <<>>
    /\ baseURL = <<>>
    /\ response = NoResponse
    /\ query = <<>>
    /\ sortURL = <<>>
    /\ dataset = <<>>
    /\ pages = <<>>

CallQuery ==
    /\ pc = "start"
    /\ query' = Query(params)
    /\ pc' = "Query"
    /\ UNCHANGED <<dataset, pages, wordBits, rawQuery, defaultOffset,
                   defaultLimit, params, err,
                   data, baseURL, response, sortURL>>

CallSortURL ==
    /\ pc = "start"
    /\ sortURL' = SortURL(params)
    /\ pc' = "SortURL"
    /\ UNCHANGED <<dataset, pages, wordBits, rawQuery, defaultOffset,
                   defaultLimit, params, err,
                   data, baseURL, response, query>>

CallPaginate ==
    /\ pc = "start"
    /\ \E d \in DataSamples, b \in BaseURLs :
          /\ data' = d
          /\ baseURL' = b
          /\ response' = Paginate(d, b, params)
    /\ pc' = "Paginate"
    /\ UNCHANGED <<dataset, pages, wordBits, rawQuery, defaultOffset,
                   defaultLimit, params, err,
                   query, sortURL>>

NextParams == CallQuery \/ CallSortURL \/ CallPaginate

SpecParams == InitParams /\ [][NextParams]_vars

-----------------------------------------------------------------------------
(* A handler that receives one request and calls FindParams                *)

InitFind ==
    /\ wordBits \in WordSizes
    /\ \E d \in DefaultSamples(wordBits) :
          /\ defaultOffset = d[1]
          /\ defaultLimit = d[2]
    /\ pc = "start"
    /\ rawQuery = <<>>
    /\ params = [Limit  |-> FromNat(0, NLimbs(wordBits)),
                 Offset |-> FromNat(0, NLimbs(wordBits)),
                 Sort   |-> <<>>]
    /\ err = ""
    /\ data = <<>>
    /\ baseURL = <<>>
    /\ response = NoResponse
    /\ query = <<>>
    /\ sortURL = <<>>
    /\ dataset = <<>>
    /\ pages = <<>>

CallFindParams ==
    /\ pc = "start"
    /\ \E q \in Requests :
          LET r == FindParams(q, defaultOffset, defaultLimit)
          IN  /\ rawQuery' = q
              /\ params' = r.params
              /\ err' = r.err
    /\ pc' = "FindParams"
    /\ UNCHANGED <<dataset, pages, wordBits, defaultOffset, defaultLimit,
                   data, baseURL, response,
                   query, sortURL>>

NextFind == CallFindParams

SpecFind == InitFind /\ [][NextFind]_vars

-----------------------------------------------------------------------------
(* A sort text written by SortURL and read back by FindParams              *)

InitRoundTrip ==
    /\ wordBits \in WordSizes
    /\ defaultOffset = FromNat(2, NLimbs(wordBits))
    /\ defaultLimit = FromNat(4, NLimbs(wordBits))
    /\ \E srt \in RoundTripSorts :
          params = [Limit |-> defaultLimit, Offset |-> defaultOffset, Sort |-> srt]
    /\ pc = "start"
    /\ rawQuery = <<>>
    /\ err = ""
    /\ data = <<>>
    /\ baseURL = <<>>
    /\ response = NoResponse
    /\ query = <<>>
    /\ sortURL = <<>>
    /\ dataset = <<>>
    /\ pages = <<>>

\* The text SortURL returned arrives as the query string of a request.
FollowSortURL ==
    /\ pc = "SortURL"
    /\ rawQuery' = sortURL
    /\ params' = FindParams(sortURL, defaultOffset, defaultLimit).params
    /\ err' = FindParams(sortURL, defaultOffset, defaultLimit).err
    /\ pc' = "FindParams"
    /\ UNCHANGED <<dataset, pages, wordBits, defaultOffset, defaultLimit,
                   data, baseURL, response,
                   query, sortURL>>

NextRoundTrip == CallSortURL \/ FollowSortURL

SpecRoundTrip == InitRoundTrip /\ [][NextRoundTrip]_vars

-----------------------------------------------------------------------------
(* A client that walks the pages of a handler by the next links            *)

\* min(a, cap) as a natural number, for a cap below LimbBase.
AtMost(a, cap) ==
    IF (\A i \in 2..Len(a) : a[i] = 0) /\ a[1] < cap THEN a[1] ELSE cap

\* The rows a SELECT ending in LIMIT n OFFSET o returns from an ordered table:
\* those at positions o+1 .. o+n that exist. n and o are the numbers of the
\* text, of any size.
Select(table, n, o) ==
    SubSeq(table,
           AtMost(o, Len(table)) + 1,
           AtMost(FromNat(AtMost(o, Len(table)) + AtMost(n, Len(table)), 1),
                  Len(table)))

\* getSomeCoolData: the table queried with the fragment appended. The
\* fragment is " LIMIT n OFFSET o ...": split on spaces, n is the third part
\* and o the fifth.
getSomeCoolData(table, fragment) ==
    Select(table,
           ParseUint(Split(fragment, " ")[3], 64).n,
           ParseUint(Split(fragment, " ")[5], 64).n)

InitTraverse ==
    /\ wordBits \in WordSizes
    /\ dataset \in Tables
    /\ defaultOffset = FromNat(0, NLimbs(wordBits))
    /\ defaultLimit \in TraverseLimits(wordBits)
    /\ rawQuery \in FirstRequests
    /\ baseURL = <<"/", "s">>
    /\ params = [Limit |-> defaultLimit, Offset |-> defaultOffset, Sort |-> <<>>]
    /\ pc = "request"
    /\ err = ""
    /\ data = <<>>
    /\ response = NoResponse
    /\ query = <<>>
    /\ sortURL = <<>>
    /\ pages = <<>>

\* handler: the parameters of the request.
HandlerFindParams ==
    /\ pc = "request"
    /\ params' = FindParams(rawQuery, defaultOffset, defaultLimit).params
    /\ err' = FindParams(rawQuery, defaultOffset, defaultLimit).err
    /\ pc' = "params"
    /\ UNCHANGED <<dataset, pages, wordBits, rawQuery, defaultOffset,
                   defaultLimit, data, baseURL, response, query, sortURL>>

\* handler: the fragment Query() returns for the parameters.
HandlerQuery ==
    /\ pc = "params"
    /\ query' = Query(params)
    /\ pc' = "query"
    /\ UNCHANGED <<dataset, pages, wordBits, rawQuery, defaultOffset,
                   defaultLimit, params, err, data, baseURL, response, sortURL>>

\* handler: the rows the fragment asks for.
HandlerSelect ==
    /\ pc = "query"
    /\ data' = getSomeCoolData(dataset, query)
    /\ pc' = "rows"
    /\ UNCHANGED <<dataset, pages, wordBits, rawQuery, defaultOffset,
                   defaultLimit, params, err, baseURL, response, query, sortURL>>

\* handler: the page sent to the client, who keeps its data.
HandlerPaginate ==
    /\ pc = "rows"
    /\ response' = Paginate(data, baseURL, params)
    /\ pages' = pages \o Paginate(data, baseURL, params).Data
    /\ pc' = "page"
    /\ UNCHANGED <<dataset, wordBits, rawQuery, defaultOffset, defaultLimit,
                   params, err, data, baseURL, query, sortURL>>

\* client: the next link is there, its query string is the next request.
ClientFollowsNext ==
    /\ pc = "page"
    /\ response.Links.Next # <<>>
    /\ rawQuery' = Cut(response.Links.Next, "?").after
    /\ pc' = "request"
    /\ UNCHANGED <<dataset, pages, wordBits, defaultOffset, defaultLimit,
                   params, err, data, baseURL, response, query, sortURL>>

\* client: no next link, the traversal is over.
ClientStops ==
    /\ pc = "page"
    /\ response.Links.Next = <<>>
    /\ pc' = "done"
    /\ UNCHANGED <<dataset, pages, wordBits, rawQuery, defaultOffset,
                   defaultLimit, params, err, data, baseURL, response, query,
                   sortURL>>

NextTraverse ==
    \/ HandlerFindParams
    \/ HandlerQuery
    \/ HandlerSelect
    \/ HandlerPaginate
    \/ ClientFollowsNext
    \/ ClientStops

SpecTraverse == InitTraverse /\ [][NextTraverse]_vars

\* The positions of handler and client.
TraversePositions == {"request", "params", "query", "rows", "page", "done"}

\* A step of the traversal, seen by the position alone: every action of
\* NextTraverse moves pc, and one of them can be taken at every position but
\* "done".
Progress == pc # "done" /\ pc' \in TraversePositions

\* Handler and client keep going: a step that can be taken is taken.
SpecTraverseLive == SpecTraverse /\ WF_pc(Progress)

-----------------------------------------------------------------------------
(* Properties of Paginate, Query and SortURL                               *)

\* uint(len(data)) > params.Limit
CountExceedsLimit == UintGreater(FromNat(Len(data), Len(params.Limit)), params.Limit)

\* The value a link carries for a key: the link's text after "?" read as a
\* query string.
Carried(link, key) == QueryGet(Cut(link, "?").after, key)

C2_Data ==
    pc = "Paginate" =>
        LET out == response.Data
            n   == IF CountExceedsLimit THEN Len(data) - 1 ELSE Len(data)
        IN  /\ Len(out) = n
            /\ \A i \in 1..n : out[i] = data[i]

\* Three items at limit 2: the third was dropped.
C2_Witness ==
    /\ pc = "Paginate"
    /\ params.Limit = FromNat(2, Len(params.Limit))
    /\ data = <<"x", "y", "x">>
    /\ response.Data = <<"x", "y">>

RECURSIVE CommaList(_, _)
\* The pairs "field<glue>order" of a sort sequence, a comma before each but
\* the first.
CommaList(sorts, glue) ==
    IF sorts = <<>> THEN <<>>
    ELSE LET n    == Len(sorts)
             last == sorts[n].Field \o glue \o sorts[n].Order
         IN  IF n = 1 THEN last
             ELSE CommaList(SubSeq(sorts, 1, n - 1), glue) \o <<",">> \o last

ExpectedPrevOffset ==
    LET n   == Len(params.Offset)
        top == MaxOfBits(wordBits, n)
    IN  IF ~UintLess(params.Offset, params.Limit)
        THEN UintSub(params.Offset, params.Limit)
        ELSE UintAdd(UintSub(top, UintSub(params.Limit, params.Offset)),
                     FromNat(1, n))

\* C7: the prev link is empty when params.Offset = 0 and present when it is
\* positive; it then carries limit = params.Limit and offset = Offset - Limit
\* in unsigned arithmetic: the difference when Offset >= Limit, and the
\* wrapped value Offset - Limit + 2^w, not 0, when 0 < Offset < Limit.
C7_PrevLink ==
    pc = "Paginate" =>
        LET prev == response.Links.Prev
        IN  /\ (prev = <<>>) <=> IsZero(params.Offset)
            /\ prev # <<>> =>
                  /\ Carried(prev, ParamPageLimit) = FormatUint(params.Limit)
                  /\ Carried(prev, ParamPageOffset) = FormatUint(ExpectedPrevOffset)
                  /\ UintLess(params.Offset, params.Limit)
                       => Carried(prev, ParamPageOffset) # <<"0">>

\* A prev link was built for 0 < Offset < Limit.
C7_Witness ==
    /\ pc = "Paginate"
    /\ params.Offset = FromNat(1, Len(params.Offset))
    /\ params.Limit = FromNat(2, Len(params.Limit))
    /\ response.Links.Prev # <<>>

\* "&" and the SortURL() text when there are sorts, nothing when there are none.
SortSuffix == IF params.Sort # <<>> THEN <<"&">> \o SortURL(params) ELSE <<>>

\* The text before the offset digits of every link.
LinkPrefix ==
    baseURL \o <<"?">> \o ParamPageLimit \o <<"=">> \o FormatUint(params.Limit)
    \o <<"&">> \o ParamPageOffset \o <<"=">>

\* link = LinkPrefix, a decimal number, SortSuffix.
HasLinkForm(link) ==
    LET a == Len(LinkPrefix)
        z == Len(SortSuffix)
        n == Len(link)
    IN  /\ n > a + z
        /\ SubSeq(link, 1, a) = LinkPrefix
        /\ SubSeq(link, n - z + 1, n) = SortSuffix
        /\ \A i \in (a + 1)..(n - z) : IsDigit(link[i])

\* C8: the first link is always present, with limit = params.Limit and
\* offset 0 whatever params.Offset is; the last link is always empty; every
\* present link is baseURL?page[limit]=L&page[offset]=O, followed by "&" and
\* the SortURL() text exactly when there are sorts, with the same L and the
\* same sort text in all of them.
C8_Links ==
    pc = "Paginate" =>
        LET l == response.Links
        IN  /\ l.First = LinkPrefix \o <<"0">> \o SortSuffix
            /\ l.Last = <<>>
            /\ \A link \in {l.First, l.Prev, l.Next} :
                  link # <<>> => HasLinkForm(link)

\* All three links were built, with sorts, at a positive offset.
C8_Witness ==
    /\ pc = "Paginate"
    /\ Len(params.Sort) = 2
    /\ ~IsZero(params.Offset)
    /\ response.Links.Prev # <<>>
    /\ response.Links.Next # <<>>
    /\ baseURL # <<>>

\* C10: the data of the response holds at most params.Limit items, whatever
\* the length of the sequence passed to Paginate.
C10_AtMostLimit ==
    pc = "Paginate" =>
        ~UintGreater(FromNat(Len(response.Data), Len(params.Limit)), params.Limit)

-----------------------------------------------------------------------------
(* Properties of FindParams                                                *)

\* The value given for a key: the first one in the query string.
Given(key) == QueryGet(rawQuery, key)

\* The key is in the query string, whatever its value.
Present(key) == \E i \in 1..Len(ParseQuery(rawQuery)) : ParseQuery(rawQuery)[i].key = key

\* A non-negative integer written in decimal: digits, at least one.
IsDecimal(s) == s # <<>> /\ \A i \in 1..Len(s) : IsDigit(s[i])

\* Decimal digits without their leading zeros.
Canonical(s) ==
    LET nz == {i \in 1..Len(s) : s[i] # "0"}
    IN  IF nz = {} THEN <<"0">>
        ELSE SubSeq(s, CHOOSE i \in nz : \A j \in nz : i <= j, Len(s))

\* a <= b for two canonical decimal texts.
DecimalLE(a, b) ==
    \/ Len(a) < Len(b)
    \/ /\ Len(a) = Len(b)
       /\ \/ a = b
          \/ \E i \in 1..Len(a) :
                /\ DigitVal(a[i]) < DigitVal(b[i])
                /\ \A j \in 1..(i - 1) : a[j] = b[j]

\* 2^32 - 1
MaxUint32Text == <<"4", "2", "9", "4", "9", "6", "7", "2", "9", "5">>

\* Decimal digits whose value is at most 2^32 - 1.
IsUint32Text(s) == IsDecimal(s) /\ DecimalLE(Canonical(s), MaxUint32Text)

Positions(s, c) == {i \in 1..Len(s) : s[i] = c}

\* The k-th smallest element of a set of numbers.
NthSmallest(S, k) == CHOOSE x \in S : Cardinality({y \in S : y < x}) = k - 1

\* The tokens of s between its commas, in order.
Tokens(s) ==
    LET cuts == Positions(s, ",") \cup {0, Len(s) + 1}
    IN  [k \in 1..(Cardinality(cuts) - 1) |->
            SubSeq(s, NthSmallest(cuts, k) + 1, NthSmallest(cuts, k + 1) - 1)]

\* The token has exactly one period: a field and an order.
IsFieldOrder(t) == Cardinality(Positions(t, ".")) = 1

FieldOrder(t) ==
    LET d == CHOOSE i \in Positions(t, ".") : TRUE
    IN  [Field |-> SubSeq(t, 1, d - 1), Order |-> SubSeq(t, d + 1, Len(t))]

\* The tokens that are a field and an order, as Sort values, in order.
ExpectedSort(s) ==
    LET kept == SelectSeq(Tokens(s), IsFieldOrder)
    IN  [i \in 1..Len(kept) |-> FieldOrder(kept[i])]

Defaults == [Limit |-> defaultLimit, Offset |-> defaultOffset, Sort |-> <<>>]

\* C6 as claimed: a page[limit] or page[offset] that is present but is not a
\* non-negative integer gives an error and a best-effort Params (the failing
\* field at its default, a limit parsed before a failing offset kept, the
\* fields not reached at their default or empty), and nothing else gives an
\* error.
C6_ErrorIffNotInteger ==
    pc = "FindParams" =>
        LET badLimit  == Present(ParamPageLimit) /\ ~IsDecimal(Given(ParamPageLimit))
            badOffset == Present(ParamPageOffset) /\ ~IsDecimal(Given(ParamPageOffset))
        IN  /\ (err # "") <=> (badLimit \/ badOffset)
            /\ badLimit => params = Defaults
            /\ (~badLimit /\ badOffset) =>
                  /\ Present(ParamPageLimit)
                        => FormatUint(params.Limit) = Canonical(Given(ParamPageLimit))
                  /\ ~Present(ParamPageLimit) => params.Limit = defaultLimit
                  /\ params.Offset = defaultOffset
                  /\ params.Sort = <<>>

\* C6 amended: the error is returned exactly when page[limit] or page[offset]
\* has a non-empty value that is not a decimal text of value at most 2^32 - 1
\* (an empty value is treated as an absent parameter); the Params returned
\* with it is the best effort the claim describes.
C6_ErrorIffNotUint32 ==
    pc = "FindParams" =>
        LET badLimit  == Given(ParamPageLimit) # <<>>
                         /\ ~IsUint32Text(Given(ParamPageLimit))
            badOffset == Given(ParamPageOffset) # <<>>
                         /\ ~IsUint32Text(Given(ParamPageOffset))
        IN  /\ (err # "") <=> (badLimit \/ badOffset)
            /\ badLimit => params = Defaults
            /\ (~badLimit /\ badOffset) =>
                  /\ Given(ParamPageLimit) # <<>>
                        => FormatUint(params.Limit) = Canonical(Given(ParamPageLimit))
                  /\ Given(ParamPageLimit) = <<>> => params.Limit = defaultLimit
                  /\ params.Offset = defaultOffset
                  /\ params.Sort = <<>>

\* page[limit]=1&page[offset]=a&sort=n.desc: an error, the limit kept, the
\* offset at its default and no sort.
C6_Witness ==
    /\ pc = "FindParams"
    /\ Given(ParamPageLimit) = <<"1">>
    /\ Given(ParamPageOffset) = <<"a">>
    /\ Given(ParamSortBy) # <<>>
    /\ err # ""
    /\ params.Limit = FromNat(1, NLimbs(wordBits))
    /\ params.Limit # defaultLimit
    /\ params.Offset = defaultOffset
    /\ params.Sort = <<>>

-----------------------------------------------------------------------------
(* Round trip of the sort encoding                                         *)

\* No field and no order of the sequence holds a comma or a period.
NoCommaNoPeriod(sorts) ==
    \A i \in 1..Len(sorts) :
        /\ ~Contains(sorts[i].Field, ",") /\ ~Contains(sorts[i].Field, ".")
        /\ ~Contains(sorts[i].Order, ",") /\ ~Contains(sorts[i].Order, ".")

\* C9: for a sort sequence without commas and periods in its fields and
\* orders, SortURL() is "" when the sequence is empty and otherwise "sort="
\* and the comma-joined field.order tokens in order; and FindParams, given
\* that text as the query string, returns the same sort sequence.
C9_RoundTrip ==
    [][ /\ (pc = "start" /\ pc' = "SortURL" /\ NoCommaNoPeriod(params.Sort)) =>
              sortURL' = IF params.Sort = <<>> THEN <<>>
                         ELSE ParamSortBy \o <<"=">> \o CommaList(params.Sort, <<".">>)
        /\ (pc = "SortURL" /\ pc' = "FindParams" /\ NoCommaNoPeriod(params.Sort)) =>
              (err' = "" /\ params'.Sort = params.Sort) ]_vars

-----------------------------------------------------------------------------
(* Traversal by next links                                                 *)

\* The request being answered came from a next link.
FollowedLink == response # NoResponse

\* C11: for every table and every limit L >= 1, the loop that starts at
\* offset 0, fetches the rows the Query() fragment asks for, paginates them
\* and follows the next link while there is one strictly increases the offset
\* at every step, ends at a page without a next link, and the data of the
\* visited pages, concatenated, is the table itself.
C11_Traversal ==
    /\ [][(pc = "request" /\ pc' = "params" /\ FollowedLink
             /\ ~IsZero(defaultLimit))
          => UintLess(params.Offset, params'.Offset)]_vars
    /\ <>(IsZero(defaultLimit) \/ pc = "done")
    /\ []((pc = "done" /\ ~IsZero(defaultLimit)) => pages = dataset)

\* The same three statements for the limits whose successor is a uint, that
\* is 1 <= L < 2^w - 1.
C11_BelowMaxLimit ==
    /\ [][(pc = "request" /\ pc' = "params" /\ FollowedLink
             /\ ~IsZero(defaultLimit)
             /\ defaultLimit # MaxOfBits(wordBits, NLimbs(wordBits)))
          => UintLess(params.Offset, params'.Offset)]_vars
    /\ <>(\/ IsZero(defaultLimit)
          \/ defaultLimit = MaxOfBits(wordBits, NLimbs(wordBits))
          \/ pc = "done")
    /\ []((/\ pc = "done"
           /\ ~IsZero(defaultLimit)
           /\ defaultLimit # MaxOfBits(wordBits, NLimbs(wordBits)))
          => pages = dataset)

====
